---- MODULE Spec2Model ----
(***************************************************************************)
(* The kitties runtime module (runtime/src/kitties.rs): the storage maps   *)
(* Kitties, KittiesCount, OwnedKitties, KittyOwners and KittyPrices, the   *)
(* dispatchable calls create, breed, transfer, ask and buy, and the        *)
(* per-owner linked list they maintain in OwnedKitties.                    *)
(*                                                                         *)
(* Option<T> is modelled as a set with at most one element: None is {},    *)
(* Some(x) is {x}.  A dispatchable call is a pure operator from the store  *)
(* before the call to the store after it, written in the order of the      *)
(* code's statements: a write made before a failing ensure! stays written. *)
(***************************************************************************)
EXTENDS Integers, Sequences, FiniteSets, TLC

\* ------------------------------------------------------------------ bounds
\* <T::KittyIndex as Bounded>::max_value(), scaled down from u32::MAX
MaxKittyIndex == 3
\* number of accounts that sign calls
NumAccounts == 2
\* highest amount passed to ask and buy
MaxPrice == 1
\* calls are enabled while the event log is shorter than this
MaxEvents == 4
\* number of bytes of a dna: [u8; 16]
DnaLen == 16

\* ------------------------------------------------------------------ Option
None == {}
Some(x) == {x}
IsSome(o) == o # {}
Unwrap(o) == CHOOSE x \in o : TRUE

\* ------------------------------------------------------------------ types
AccountId == 1..NumAccounts
KittyIndex == 0..MaxKittyIndex
OptKittyIndex == {None} \cup {Some(i) : i \in KittyIndex}
Balance == 0..MaxPrice
OptBalance == {None} \cup {Some(p) : p \in Balance}

\* the values random_value is taken to return (two of the possible hashes)
RandomValues ==
    {[i \in 1..DnaLen |-> 15], [i \in 1..DnaLen |-> IF i % 2 = 1 THEN 51 ELSE 240]}

\* ------------------------------------------------------------------ dna
RECURSIVE BitAnd(_, _, _)
BitAnd(a, b, n) ==
    IF n = 0 THEN 0
    ELSE (a % 2) * (b % 2) + 2 * BitAnd(a \div 2, b \div 2, n - 1)

RECURSIVE BitOr(_, _, _)
BitOr(a, b, n) ==
    IF n = 0 THEN 0
    ELSE (IF (a % 2) + (b % 2) > 0 THEN 1 ELSE 0)
         + 2 * BitOr(a \div 2, b \div 2, n - 1)

\* !x on a u8
BitNot(a) == 255 - a

\* combine_dna with the two parents exchanged
combine_dna_swapped(dna1, dna2, selector) ==
    BitOr(BitAnd(selector, dna2, 8), BitAnd(BitNot(selector), dna1, 8), 8)

combine_dna(dna1, dna2, selector) ==
    BitOr(BitAnd(selector, dna1, 8), BitAnd(BitNot(selector), dna2, 8), 8)

\* ------------------------------------------------------------------ state
VARIABLES
    Kitties,        \* map KittyIndex => Option<Kitty>
    KittiesCount,   \* the next kitty index
    OwnedKitties,   \* map (AccountId, Option<KittyIndex>) => Option<LinkedItem>
    KittyOwners,    \* map KittyIndex => Option<AccountId>
    KittyPrices,    \* map KittyIndex => Option<Balance>
    FreeBalance,    \* the currency's free balance of every account
    Events,         \* the events deposited so far, oldest first
    result          \* what the last call returned: "Ok" or the error

vars == <<Kitties, KittiesCount, OwnedKitties, KittyOwners, KittyPrices,
          FreeBalance, Events, result>>

\* the store as one value
Cur ==
    [Kitties |-> Kitties, KittiesCount |-> KittiesCount,
     OwnedKitties |-> OwnedKitties, KittyOwners |-> KittyOwners,
     KittyPrices |-> KittyPrices, FreeBalance |-> FreeBalance,
     Events |-> Events, result |-> result]

Commit(S) ==
    /\ Kitties' = S.Kitties
    /\ KittiesCount' = S.KittiesCount
    /\ OwnedKitties' = S.OwnedKitties
    /\ KittyOwners' = S.KittyOwners
    /\ KittyPrices' = S.KittyPrices
    /\ FreeBalance' = S.FreeBalance
    /\ Events' = S.Events
    /\ result' = S.result

\* return Err(e): the store as it is, with the error as the call's result
Err(S, e) == [S EXCEPT !.result = e]

deposit_event(S, e) == [S EXCEPT !.Events = Append(@, e)]

\* ------------------------------------------------------------------ LinkedList
LinkedItem(p, n) == [prev |-> p, next |-> n]

\* the item stored under (key, value); an absent item reads as {None, None}
read(M, key, value) ==
    IF IsSome(M[<<key, value>>]) THEN Unwrap(M[<<key, value>>])
    ELSE LinkedItem(None, None)

write(M, key, value, item) == [M EXCEPT ![<<key, value>>] = Some(item)]

\* append that also points the first node of the list back at the new one
append_closes_ring(M, key, value) ==
    LET head == read(M, key, None)
        old_tail == head.prev
    IN  IF old_tail = None
        THEN write(write(M, key, None, LinkedItem(Some(value), Some(value))),
                   key, Some(value), LinkedItem(None, None))
        ELSE LET M1 == write(M, key, old_tail,
                             [read(M, key, old_tail) EXCEPT !.next = Some(value)])
                 M2 == write(M1, key, Some(value), LinkedItem(old_tail, None))
                 M3 == write(M2, key, None, [head EXCEPT !.prev = Some(value)])
             IN  write(M3, key, head.next,
                       [read(M3, key, head.next) EXCEPT !.prev = Some(value)])

append(M, key, value) ==
    LET head == read(M, key, None)
        old_tail == head.prev
    IN  IF old_tail = None
        THEN write(write(M, key, None, LinkedItem(Some(value), Some(value))),
                   key, Some(value), LinkedItem(None, None))
        ELSE LET M1 == write(M, key, old_tail,
                             [read(M, key, old_tail) EXCEPT !.next = Some(value)])
                 M2 == write(M1, key, Some(value), LinkedItem(old_tail, None))
             IN  write(M2, key, None, [head EXCEPT !.prev = Some(value)])

\* remove that deletes the sentinel when the list becomes empty
remove_deletes_sentinel(M, key, value) ==
    IF ~IsSome(M[<<key, Some(value)>>]) THEN M
    ELSE LET item == Unwrap(M[<<key, Some(value)>>])
             p == item.prev
             n == item.next
             M1 == write(M, key, p, [read(M, key, p) EXCEPT !.next = n])
             M2 == write(M1, key, n, [read(M1, key, n) EXCEPT !.prev = p])
             M3 == [M2 EXCEPT ![<<key, Some(value)>>] = None]
         IN  IF read(M3, key, None) = LinkedItem(None, None)
             THEN [M3 EXCEPT ![<<key, None>>] = None]
             ELSE M3

\* remove that leaves the item after the removed one as it was
remove_keeps_next(M, key, value) ==
    IF ~IsSome(M[<<key, Some(value)>>]) THEN M
    ELSE LET item == Unwrap(M[<<key, Some(value)>>])
             p == item.prev
             n == item.next
             M1 == write(M, key, p, [read(M, key, p) EXCEPT !.next = n])
         IN  [M1 EXCEPT ![<<key, Some(value)>>] = None]

remove(M, key, value) ==
    IF ~IsSome(M[<<key, Some(value)>>]) THEN M
    ELSE LET item == Unwrap(M[<<key, Some(value)>>])
             p == item.prev
             n == item.next
             \* p's next = n; with p none this is the head pointer of the sentinel
             M1 == write(M, key, p, [read(M, key, p) EXCEPT !.next = n])
             \* n's prev = p; with n none this is the tail pointer of the sentinel
             M2 == write(M1, key, n, [read(M1, key, n) EXCEPT !.prev = p])
         IN  [M2 EXCEPT ![<<key, Some(value)>>] = None]

\* the ids reached from item cur by following next (fwd) or prev, cur included
RECURSIVE walk(_, _, _, _, _)
walk(M, key, cur, fwd, fuel) ==
    IF cur = None \/ fuel = 0 THEN <<>>
    ELSE <<Unwrap(cur)>> \o
         walk(M, key, IF fwd THEN read(M, key, cur).next ELSE read(M, key, cur).prev,
              fwd, fuel - 1)

\* list_owned: the traversal from the sentinel's next until none
list_owned(M, key) ==
    walk(M, key, read(M, key, None).next, TRUE, MaxKittyIndex + 2)

\* the traversal from the sentinel's prev until none
list_owned_rev(M, key) ==
    walk(M, key, read(M, key, None).prev, FALSE, MaxKittyIndex + 2)

\* ------------------------------------------------------------------ helpers
\* next_kitty_id without the overflow check
next_kitty_id_unchecked(S) ==
    [ok |-> TRUE, err |-> "", id |-> S.KittiesCount]

\* next_kitty_id that is one behind the counter
next_kitty_id_reuses(S) ==
    IF S.KittiesCount = MaxKittyIndex
    THEN [ok |-> FALSE, err |-> "Kitties count overflow", id |-> 0]
    ELSE [ok |-> TRUE, err |-> "",
          id |-> IF S.KittiesCount > 0 THEN S.KittiesCount - 1 ELSE 0]

next_kitty_id(S) ==
    IF S.KittiesCount = MaxKittyIndex
    THEN [ok |-> FALSE, err |-> "Kitties count overflow", id |-> 0]
    ELSE [ok |-> TRUE, err |-> "", id |-> S.KittiesCount]

insert_owned_kitty(S, owner, kitty_id) ==
    [S EXCEPT !.OwnedKitties = append(@, owner, kitty_id)]

\* insert_kitty that leaves KittiesCount as it is
insert_kitty_keeps_count(S, owner, kitty_id, kitty) ==
    LET S1 == [S EXCEPT !.Kitties[kitty_id] = Some(kitty)]
        S3 == [S1 EXCEPT !.KittyOwners[kitty_id] = Some(owner)]
    IN  insert_owned_kitty(S3, owner, kitty_id)

\* insert_kitty that stores no owner pointer
insert_kitty_no_owner(S, owner, kitty_id, kitty) ==
    LET S1 == [S EXCEPT !.Kitties[kitty_id] = Some(kitty)]
        S2 == [S1 EXCEPT !.KittiesCount = (kitty_id + 1) % (MaxKittyIndex + 1)]
    IN  insert_owned_kitty(S2, owner, kitty_id)

insert_kitty(S, owner, kitty_id, kitty) ==
    LET S1 == [S EXCEPT !.Kitties[kitty_id] = Some(kitty)]
        S2 == [S1 EXCEPT !.KittiesCount = (kitty_id + 1) % (MaxKittyIndex + 1)]
        S3 == [S2 EXCEPT !.KittyOwners[kitty_id] = Some(owner)]
    IN  insert_owned_kitty(S3, owner, kitty_id)

\* do_transfer that forgets KittyOwners
do_transfer_keeps_owner(S, from, to, kitty_id) ==
    LET S1 == [S EXCEPT !.OwnedKitties = remove(@, from, kitty_id)]
    IN  [S1 EXCEPT !.OwnedKitties = append(@, to, kitty_id)]

\* do_transfer that removes from the list of `to`
do_transfer_removes_to(S, from, to, kitty_id) ==
    LET S1 == [S EXCEPT !.OwnedKitties = remove(@, to, kitty_id)]
        S2 == [S1 EXCEPT !.OwnedKitties = append(@, to, kitty_id)]
    IN  [S2 EXCEPT !.KittyOwners[kitty_id] = Some(to)]

\* do_transfer that forgets the append
do_transfer_no_append(S, from, to, kitty_id) ==
    LET S1 == [S EXCEPT !.OwnedKitties = remove(@, from, kitty_id)]
    IN  [S1 EXCEPT !.KittyOwners[kitty_id] = Some(to)]

do_transfer(S, from, to, kitty_id) ==
    LET S1 == [S EXCEPT !.OwnedKitties = remove(@, from, kitty_id)]
        S2 == [S1 EXCEPT !.OwnedKitties = append(@, to, kitty_id)]
    IN  [S2 EXCEPT !.KittyOwners[kitty_id] = Some(to)]

\* do_breed that stores the child under the first parent's id
do_breed_overwrites_parent(S, sender, kitty_id_1, kitty_id_2, selector) ==
    LET kitty1 == S.Kitties[kitty_id_1]
        kitty2 == S.Kitties[kitty_id_2]
        nid == next_kitty_id(S)
        new_dna == [i \in 1..DnaLen |->
                      combine_dna(Unwrap(kitty1)[i], Unwrap(kitty2)[i], selector[i])]
    IN  IF ~IsSome(kitty1) THEN [S |-> Err(S, "Invalid kitty_id_1"), id |-> 0]
        ELSE IF ~IsSome(kitty2) THEN [S |-> Err(S, "Invalid kitty_id_2"), id |-> 0]
        ELSE IF kitty_id_1 = kitty_id_2
             THEN [S |-> Err(S, "Needs different parent"), id |-> 0]
        ELSE IF S.KittyOwners[kitty_id_1] # Some(sender)
             THEN [S |-> Err(S, "Not owner of kitty1"), id |-> 0]
        ELSE IF S.KittyOwners[kitty_id_2] # Some(sender)
             THEN [S |-> Err(S, "Not owner of kitty2"), id |-> 0]
        ELSE IF ~nid.ok THEN [S |-> Err(S, nid.err), id |-> 0]
        ELSE [S |-> [[insert_kitty(S, sender, nid.id, new_dna)
                        EXCEPT !.Kitties[kitty_id_1] = Some(new_dna)]
                        EXCEPT !.result = "Ok"],
              id |-> nid.id]

\* do_breed that checks the parents differ before it checks they exist
do_breed_same_parent_first(S, sender, kitty_id_1, kitty_id_2, selector) ==
    LET kitty1 == S.Kitties[kitty_id_1]
        kitty2 == S.Kitties[kitty_id_2]
        nid == next_kitty_id(S)
        new_dna == [i \in 1..DnaLen |->
                      combine_dna(Unwrap(kitty1)[i], Unwrap(kitty2)[i], selector[i])]
    IN  IF kitty_id_1 = kitty_id_2
        THEN [S |-> Err(S, "Needs different parent"), id |-> 0]
        ELSE IF ~IsSome(kitty1) THEN [S |-> Err(S, "Invalid kitty_id_1"), id |-> 0]
        ELSE IF ~IsSome(kitty2) THEN [S |-> Err(S, "Invalid kitty_id_2"), id |-> 0]
        ELSE IF S.KittyOwners[kitty_id_1] # Some(sender)
             THEN [S |-> Err(S, "Not owner of kitty1"), id |-> 0]
        ELSE IF S.KittyOwners[kitty_id_2] # Some(sender)
             THEN [S |-> Err(S, "Not owner of kitty2"), id |-> 0]
        ELSE IF ~nid.ok THEN [S |-> Err(S, nid.err), id |-> 0]
        ELSE [S |-> [insert_kitty(S, sender, nid.id, new_dna) EXCEPT !.result = "Ok"],
              id |-> nid.id]

\* do_breed returns the store and, on success, the new kitty's id
do_breed(S, sender, kitty_id_1, kitty_id_2, selector) ==
    LET kitty1 == S.Kitties[kitty_id_1]
        kitty2 == S.Kitties[kitty_id_2]
        nid == next_kitty_id(S)
        new_dna == [i \in 1..DnaLen |->
                      combine_dna(Unwrap(kitty1)[i], Unwrap(kitty2)[i], selector[i])]
    IN  IF ~IsSome(kitty1) THEN [S |-> Err(S, "Invalid kitty_id_1"), id |-> 0]
        ELSE IF ~IsSome(kitty2) THEN [S |-> Err(S, "Invalid kitty_id_2"), id |-> 0]
        ELSE IF kitty_id_1 = kitty_id_2
             THEN [S |-> Err(S, "Needs different parent"), id |-> 0]
        ELSE IF S.KittyOwners[kitty_id_1] # Some(sender)
             THEN [S |-> Err(S, "Not owner of kitty1"), id |-> 0]
        ELSE IF S.KittyOwners[kitty_id_2] # Some(sender)
             THEN [S |-> Err(S, "Not owner of kitty2"), id |-> 0]
        ELSE IF ~nid.ok THEN [S |-> Err(S, nid.err), id |-> 0]
        ELSE [S |-> [insert_kitty(S, sender, nid.id, new_dna) EXCEPT !.result = "Ok"],
              id |-> nid.id]

\* Currency::transfer: the debit and the credit, or an error and no change
currency_transfer(S, from, to, value) ==
    IF S.FreeBalance[from] < value
    THEN Err(S, "InsufficientFunds")
    ELSE LET B1 == [S.FreeBalance EXCEPT ![from] = @ - value]
             B2 == [B1 EXCEPT ![to] = @ + value]
         IN  [S EXCEPT !.FreeBalance = B2, !.result = "Ok"]

\* ------------------------------------------------------------------ calls
create(S, sender, dna) ==
    LET nid == next_kitty_id(S)
    IN  IF ~nid.ok THEN Err(S, nid.err)
        ELSE LET S1 == insert_kitty(S, sender, nid.id, dna)
                 S2 == deposit_event(S1, <<"Created", sender, nid.id>>)
             IN  [S2 EXCEPT !.result = "Ok"]

breed(S, sender, kitty_id_1, kitty_id_2, selector) ==
    LET r == do_breed(S, sender, kitty_id_1, kitty_id_2, selector)
    IN  IF r.S.result # "Ok" THEN r.S
        ELSE deposit_event(r.S, <<"Created", sender, r.id>>)

\* transfer that takes the kitty off the market
transfer_clears_price(S, sender, to, kitty_id) ==
    IF ~IsSome(S.OwnedKitties[<<sender, Some(kitty_id)>>])
    THEN Err(S, "Only owner can transfer kitty")
    ELSE LET S0 == [S EXCEPT !.KittyPrices[kitty_id] = None]
             S1 == do_transfer(S0, sender, to, kitty_id)
             S2 == deposit_event(S1, <<"Transferred", sender, to, kitty_id>>)
         IN  [S2 EXCEPT !.result = "Ok"]

\* transfer that checks the owner pointer is set, not whose it is
transfer_checks_exists(S, sender, to, kitty_id) ==
    IF ~IsSome(S.KittyOwners[kitty_id])
    THEN Err(S, "Only owner can transfer kitty")
    ELSE LET S1 == do_transfer(S, sender, to, kitty_id)
             S2 == deposit_event(S1, <<"Transferred", sender, to, kitty_id>>)
         IN  [S2 EXCEPT !.result = "Ok"]

transfer(S, sender, to, kitty_id) ==
    IF ~IsSome(S.OwnedKitties[<<sender, Some(kitty_id)>>])
    THEN Err(S, "Only owner can transfer kitty")
    ELSE LET S1 == do_transfer(S, sender, to, kitty_id)
             S2 == deposit_event(S1, <<"Transferred", sender, to, kitty_id>>)
         IN  [S2 EXCEPT !.result = "Ok"]

\* ask that has no else branch: None leaves the entry
ask_ignores_none(S, sender, kitty_id, price) ==
    IF ~IsSome(S.OwnedKitties[<<sender, Some(kitty_id)>>])
    THEN Err(S, "Only owner can set price for kitty")
    ELSE LET S1 == IF IsSome(price) THEN [S EXCEPT !.KittyPrices[kitty_id] = price]
                   ELSE S
             S2 == deposit_event(S1, <<"Ask", sender, kitty_id, price>>)
         IN  [S2 EXCEPT !.result = "Ok"]

\* ask without the ownership check
ask_unchecked(S, sender, kitty_id, price) ==
    LET S1 == [S EXCEPT !.KittyPrices[kitty_id] = price]
        S2 == deposit_event(S1, <<"Ask", sender, kitty_id, price>>)
    IN  [S2 EXCEPT !.result = "Ok"]

ask(S, sender, kitty_id, price) ==
    IF ~IsSome(S.OwnedKitties[<<sender, Some(kitty_id)>>])
    THEN Err(S, "Only owner can set price for kitty")
    ELSE LET S1 == [S EXCEPT !.KittyPrices[kitty_id] = price]
             S2 == deposit_event(S1, <<"Ask", sender, kitty_id, price>>)
         IN  [S2 EXCEPT !.result = "Ok"]

\* buy that reports the price the buyer offered
buy_emits_offer(S, sender, kitty_id, price) ==
    LET owner == S.KittyOwners[kitty_id]
        kitty_price == S.KittyPrices[kitty_id]
    IN  IF ~IsSome(owner) THEN Err(S, "Kitty does not exist")
        ELSE IF ~IsSome(kitty_price) THEN Err(S, "Kitty not for sale")
        ELSE IF ~(price >= Unwrap(kitty_price)) THEN Err(S, "Price is too low")
        ELSE LET S1 == currency_transfer(S, sender, Unwrap(owner), Unwrap(kitty_price))
             IN  IF S1.result # "Ok" THEN S1
                 ELSE LET S2 == [S1 EXCEPT !.KittyPrices[kitty_id] = None]
                          S3 == do_transfer(S2, Unwrap(owner), sender, kitty_id)
                          S4 == deposit_event(S3, <<"Sold", Unwrap(owner), sender,
                                                    kitty_id, price>>)
                      IN  [S4 EXCEPT !.result = "Ok"]

\* buy that takes an id without a price entry as listed at zero
buy_unlisted(S, sender, kitty_id, price) ==
    LET owner == S.KittyOwners[kitty_id]
        kitty_price == IF IsSome(S.KittyPrices[kitty_id])
                       THEN S.KittyPrices[kitty_id] ELSE Some(0)
    IN  IF ~IsSome(owner) THEN Err(S, "Kitty does not exist")
        ELSE IF ~(price >= Unwrap(kitty_price)) THEN Err(S, "Price is too low")
        ELSE LET S1 == currency_transfer(S, sender, Unwrap(owner), Unwrap(kitty_price))
             IN  IF S1.result # "Ok" THEN S1
                 ELSE LET S2 == [S1 EXCEPT !.KittyPrices[kitty_id] = None]
                          S3 == do_transfer(S2, Unwrap(owner), sender, kitty_id)
                          S4 == deposit_event(S3, <<"Sold", Unwrap(owner), sender,
                                                    kitty_id, Unwrap(kitty_price)>>)
                      IN  [S4 EXCEPT !.result = "Ok"]

\* buy that passes the owner and the sender to the currency in the other order
buy_pays_caller(S, sender, kitty_id, price) ==
    LET owner == S.KittyOwners[kitty_id]
        kitty_price == S.KittyPrices[kitty_id]
    IN  IF ~IsSome(owner) THEN Err(S, "Kitty does not exist")
        ELSE IF ~IsSome(kitty_price) THEN Err(S, "Kitty not for sale")
        ELSE IF ~(price >= Unwrap(kitty_price)) THEN Err(S, "Price is too low")
        ELSE LET S1 == currency_transfer(S, Unwrap(owner), sender, Unwrap(kitty_price))
             IN  IF S1.result # "Ok" THEN S1
                 ELSE LET S2 == [S1 EXCEPT !.KittyPrices[kitty_id] = None]
                          S3 == do_transfer(S2, Unwrap(owner), sender, kitty_id)
                          S4 == deposit_event(S3, <<"Sold", Unwrap(owner), sender,
                                                    kitty_id, Unwrap(kitty_price)>>)
                      IN  [S4 EXCEPT !.result = "Ok"]

\* buy that pays before it compares the offer with the price
buy_pays_before_price_check(S, sender, kitty_id, price) ==
    LET owner == S.KittyOwners[kitty_id]
        kitty_price == S.KittyPrices[kitty_id]
    IN  IF ~IsSome(owner) THEN Err(S, "Kitty does not exist")
        ELSE IF ~IsSome(kitty_price) THEN Err(S, "Kitty not for sale")
        ELSE LET S1 == currency_transfer(S, sender, Unwrap(owner), Unwrap(kitty_price))
             IN  IF S1.result # "Ok" THEN S1
                 ELSE IF ~(price >= Unwrap(kitty_price)) THEN Err(S1, "Price is too low")
                 ELSE LET S2 == [S1 EXCEPT !.KittyPrices[kitty_id] = None]
                          S3 == do_transfer(S2, Unwrap(owner), sender, kitty_id)
                          S4 == deposit_event(S3, <<"Sold", Unwrap(owner), sender,
                                                    kitty_id, Unwrap(kitty_price)>>)
                      IN  [S4 EXCEPT !.result = "Ok"]

\* buy that pays the price the buyer offered
buy_pays_offer(S, sender, kitty_id, price) ==
    LET owner == S.KittyOwners[kitty_id]
        kitty_price == S.KittyPrices[kitty_id]
    IN  IF ~IsSome(owner) THEN Err(S, "Kitty does not exist")
        ELSE IF ~IsSome(kitty_price) THEN Err(S, "Kitty not for sale")
        ELSE IF ~(price >= Unwrap(kitty_price)) THEN Err(S, "Price is too low")
        ELSE LET S1 == currency_transfer(S, sender, Unwrap(owner), price)
             IN  IF S1.result # "Ok" THEN S1
                 ELSE LET S2 == [S1 EXCEPT !.KittyPrices[kitty_id] = None]
                          S3 == do_transfer(S2, Unwrap(owner), sender, kitty_id)
                          S4 == deposit_event(S3, <<"Sold", Unwrap(owner), sender,
                                                    kitty_id, Unwrap(kitty_price)>>)
                      IN  [S4 EXCEPT !.result = "Ok"]

\* buy that removes the price before the currency transfer
buy_removes_price_first(S, sender, kitty_id, price) ==
    LET owner == S.KittyOwners[kitty_id]
        kitty_price == S.KittyPrices[kitty_id]
    IN  IF ~IsSome(owner) THEN Err(S, "Kitty does not exist")
        ELSE IF ~IsSome(kitty_price) THEN Err(S, "Kitty not for sale")
        ELSE IF ~(price >= Unwrap(kitty_price)) THEN Err(S, "Price is too low")
        ELSE LET S0 == [S EXCEPT !.KittyPrices[kitty_id] = None]
                 S1 == currency_transfer(S0, sender, Unwrap(owner), Unwrap(kitty_price))
             IN  IF S1.result # "Ok" THEN S1
                 ELSE LET S3 == do_transfer(S1, Unwrap(owner), sender, kitty_id)
                          S4 == deposit_event(S3, <<"Sold", Unwrap(owner), sender,
                                                    kitty_id, Unwrap(kitty_price)>>)
                      IN  [S4 EXCEPT !.result = "Ok"]

buy(S, sender, kitty_id, price) ==
    LET owner == S.KittyOwners[kitty_id]
        kitty_price == S.KittyPrices[kitty_id]
    IN  IF ~IsSome(owner) THEN Err(S, "Kitty does not exist")
        ELSE IF ~IsSome(kitty_price) THEN Err(S, "Kitty not for sale")
        ELSE IF ~(price >= Unwrap(kitty_price)) THEN Err(S, "Price is too low")
        ELSE LET S1 == currency_transfer(S, sender, Unwrap(owner), Unwrap(kitty_price))
             IN  IF S1.result # "Ok" THEN S1
                 ELSE LET S2 == [S1 EXCEPT !.KittyPrices[kitty_id] = None]
                          S3 == do_transfer(S2, Unwrap(owner), sender, kitty_id)
                          S4 == deposit_event(S3, <<"Sold", Unwrap(owner), sender,
                                                    kitty_id, Unwrap(kitty_price)>>)
                      IN  [S4 EXCEPT !.result = "Ok"]

\* ------------------------------------------------------------------ actions
Init ==
    /\ Kitties = [i \in KittyIndex |-> None]
    /\ KittiesCount = 0
    /\ OwnedKitties = [k \in AccountId \X OptKittyIndex |-> None]
    /\ KittyOwners = [i \in KittyIndex |-> None]
    /\ KittyPrices = [i \in KittyIndex |-> None]
    /\ FreeBalance = [a \in AccountId |-> a - 1]
    /\ Events = <<>>
    /\ result = "Ok"

Create ==
    \E sender \in AccountId, dna \in RandomValues :
        Commit(create(Cur, sender, dna))

Breed ==
    \E sender \in AccountId, id1 \in KittyIndex, id2 \in KittyIndex,
       selector \in RandomValues :
        Commit(breed(Cur, sender, id1, id2, selector))

Transfer ==
    \E sender \in AccountId, to \in AccountId, id \in KittyIndex :
        Commit(transfer(Cur, sender, to, id))

Ask ==
    \E sender \in AccountId, id \in KittyIndex, price \in OptBalance :
        Commit(ask(Cur, sender, id, price))

Buy ==
    \E sender \in AccountId, id \in KittyIndex, price \in Balance :
        Commit(buy(Cur, sender, id, price))

Next ==
    /\ Len(Events) < MaxEvents
    /\ (Create \/ Breed \/ Transfer \/ Ask \/ Buy)

Spec == Init /\ [][Next]_vars

\* ------------------------------------------------------------------ properties
Range(q) == {q[i] : i \in 1..Len(q)}
Reverse(q) == [i \in 1..Len(q) |-> q[Len(q) + 1 - i]]
Without(q, x) == SelectSeq(q, LAMBDA y : y # x)
Last(q) == q[Len(q)]
NoDuplicates(q) == Cardinality(Range(q)) = Len(q)
Owned(o) == list_owned(OwnedKitties, o)
store_vars == <<Kitties, KittiesCount, OwnedKitties, KittyOwners, KittyPrices,
                FreeBalance, Events>>
Failures ==
    {"Invalid kitty_id_1", "Invalid kitty_id_2", "Needs different parent",
     "Not owner of kitty1", "Not owner of kitty2", "Kitties count overflow",
     "Only owner can transfer kitty", "Only owner can set price for kitty",
     "Kitty does not exist", "Kitty not for sale", "Price is too low",
     "InsufficientFunds"}

\* C1: for every owner o, following next from the sentinel (o, none) visits
\* exactly the ids whose owner pointer is o, each once, and following prev from
\* the sentinel visits the same ids in the reverse order.
C1_ListIsOwnedSet ==
    \A o \in AccountId :
        /\ Range(Owned(o)) = {i \in KittyIndex : KittyOwners[i] = Some(o)}
        /\ NoDuplicates(Owned(o))
        /\ list_owned_rev(OwnedKitties, o) = Reverse(Owned(o))

\* a list of two or more ids that a transfer or a sale has put out of id order
C1_Witness ==
    \E o \in AccountId :
        /\ Len(Owned(o)) >= 2
        /\ Owned(o)[1] > Owned(o)[2]
        /\ Last(Events)[1] \in {"Transferred", "Sold"}

\* C2: every id has an index node under at most one owner; the lists of two
\* different owners share no id, and together the lists hold exactly the ids
\* that have an owner pointer.
C2_OneListPerId ==
    /\ \A i \in KittyIndex :
          Cardinality({o \in AccountId : IsSome(OwnedKitties[<<o, Some(i)>>])}) <= 1
    /\ \A o1 \in AccountId, o2 \in AccountId :
          o1 # o2 => Range(Owned(o1)) \cap Range(Owned(o2)) = {}
    /\ UNION {Range(Owned(o)) : o \in AccountId}
          = {i \in KittyIndex : IsSome(KittyOwners[i])}

\* two owners hold ids, one of them an id it got from the other
C2_Witness ==
    /\ \A o \in AccountId : Len(Owned(o)) >= 1
    /\ Len(Events) >= 1
    /\ Last(Events)[1] = "Transferred"
    /\ Last(Events)[2] # Last(Events)[3]

\* C3: a call that returns a failure changes nothing: the asset records, owner
\* pointers, prices, index nodes, counter, balances and event log are as they
\* were before the call; and a failure is one of the named ones.
C3_FailureChangesNothing ==
    [][(result' # "Ok") => (result' \in Failures /\ UNCHANGED store_vars)]_vars

\* a buy that passed every check of the module and failed in the currency
C3_Witness ==
    /\ result = "InsufficientFunds"
    /\ \E i \in KittyIndex : IsSome(KittyPrices[i])

Existing == {i \in KittyIndex : IsSome(Kitties[i])}

\* C4: the counter is the number of asset records and the existing ids are
\* 0 .. counter-1; a create or breed that succeeds gives the new asset the old
\* counter as id and raises the counter by one; nothing else changes the counter.
C4_CounterIsDense ==
    /\ [](/\ KittiesCount = Cardinality(Existing)
          /\ Existing = 0..(KittiesCount - 1))
    /\ [][/\ (KittiesCount' # KittiesCount) =>
                /\ KittiesCount' = KittiesCount + 1
                /\ result' = "Ok"
                /\ \E a \in AccountId :
                      Events' = Append(Events, <<"Created", a, KittiesCount>>)
          /\ (Len(Events') > Len(Events) /\ Last(Events')[1] = "Created") =>
                /\ KittiesCount' = KittiesCount + 1
                /\ Last(Events')[3] = KittiesCount
                /\ ~IsSome(Kitties[KittiesCount])
                /\ IsSome(Kitties'[KittiesCount])
         ]_vars

\* a breed gave its child the id 2 after two creates
C4_Witness ==
    /\ KittiesCount = 3
    /\ Len(Events) = 3
    /\ Events[3][3] = 2
    /\ \E i \in 1..DnaLen : Unwrap(Kitties[2])[i] \notin {Unwrap(Kitties[0])[i], Unwrap(Kitties[1])[i]}

\* C5: an id has an owner pointer exactly when it has an asset record, and the
\* pointer names one account.
C5_OwnerIffKitty ==
    \A i \in KittyIndex :
        /\ IsSome(KittyOwners[i]) <=> IsSome(Kitties[i])
        /\ IsSome(KittyOwners[i]) =>
              \E o \in AccountId : KittyOwners[i] = Some(o)

\* an id with a record and an owner that is no longer its creator, next to an
\* id with neither
C5_Witness ==
    /\ \E i \in KittyIndex : ~IsSome(Kitties[i]) /\ ~IsSome(KittyOwners[i])
    /\ \E n \in 1..Len(Events), m \in 1..Len(Events) :
          /\ Events[n][1] = "Created"
          /\ Events[m][1] \in {"Transferred", "Sold"}
          /\ IsSome(Kitties[Events[n][3]])
          /\ KittyOwners[Events[n][3]] # Some(Events[n][2])

\* C6: an id has a price entry only if it has an owner pointer.
C6_PriceOnlyIfOwned ==
    \A i \in KittyIndex : IsSome(KittyPrices[i]) => IsSome(KittyOwners[i])

\* an ask has just been refused while one id is listed and another id was
\* never created
C6_Witness ==
    /\ result = "Only owner can set price for kitty"
    /\ \E i \in KittyIndex : IsSome(KittyPrices[i])
    /\ \E i \in KittyIndex : ~IsSome(KittyOwners[i])

\* C7: transfer and ask fail with NotOwner and change nothing whenever the
\* caller is not the recorded owner of the id (an id that does not exist
\* included), and succeed whenever the caller is; the index node
\* (caller, some(id)) they read exists exactly when owner[id] is the caller.
C7_NotOwner ==
    /\ \A c \in AccountId, i \in KittyIndex :
          IsSome(OwnedKitties[<<c, Some(i)>>]) <=> KittyOwners[i] = Some(c)
    /\ \A c \in AccountId, to \in AccountId, i \in KittyIndex :
          IF KittyOwners[i] = Some(c)
          THEN transfer(Cur, c, to, i).result = "Ok"
          ELSE transfer(Cur, c, to, i) = Err(Cur, "Only owner can transfer kitty")
    /\ \A c \in AccountId, i \in KittyIndex, price \in OptBalance :
          IF KittyOwners[i] = Some(c)
          THEN ask(Cur, c, i, price).result = "Ok"
          ELSE ask(Cur, c, i, price) = Err(Cur, "Only owner can set price for kitty")

\* a transfer has just been refused, of ids that exist and of ids that do not
C7_Witness ==
    /\ result = "Only owner can transfer kitty"
    /\ \E i \in KittyIndex : IsSome(KittyOwners[i])
    /\ \E i \in KittyIndex : ~IsSome(KittyOwners[i])

\* the balances after a debit of p from account `from` and a credit of p to `to`
PaidBalances(B, from, to, p) ==
    [a \in AccountId |->
        B[a] - (IF a = from THEN p ELSE 0) + (IF a = to THEN p ELSE 0)]

\* what a successful buy(c, i, max) made of the store S gives in the store B
BuyEffect(S, B, c, i, max) ==
    LET owner == Unwrap(S.KittyOwners[i])
        p == Unwrap(S.KittyPrices[i])
    IN  /\ IsSome(S.KittyOwners[i]) /\ IsSome(S.KittyPrices[i])
        /\ p <= max
        /\ B.FreeBalance = PaidBalances(S.FreeBalance, c, owner, p)
        /\ B.KittyOwners = [S.KittyOwners EXCEPT ![i] = Some(c)]
        /\ list_owned(B.OwnedKitties, c)
              = Append(Without(list_owned(S.OwnedKitties, c), i), i)
        /\ \A o \in AccountId \ {c} :
              list_owned(B.OwnedKitties, o) = Without(list_owned(S.OwnedKitties, o), i)
        /\ B.KittyPrices = [S.KittyPrices EXCEPT ![i] = None]
        /\ \A c2 \in AccountId, max2 \in Balance :
              buy(B, c2, i, max2) = Err(B, "Kitty not for sale")

\* C8: a successful buy of an id listed at p takes exactly p from the caller
\* and gives exactly p to the owner, makes the caller the owner, moves the id
\* from the owner's list to the tail of the caller's and clears the price; a
\* buy of an id that has an owner and no price fails with NotForSale, and only a
\* successful ask with some price gives an id a price.
C8_BuyEffect ==
    /\ [](\A c \in AccountId, i \in KittyIndex, max \in Balance :
            /\ buy(Cur, c, i, max).result = "Ok"
                  => BuyEffect(Cur, buy(Cur, c, i, max), c, i, max)
            /\ (IsSome(KittyOwners[i]) /\ ~IsSome(KittyPrices[i]))
                  => buy(Cur, c, i, max).result = "Kitty not for sale")
    /\ [][\A i \in KittyIndex :
            (~IsSome(KittyPrices[i]) /\ IsSome(KittyPrices'[i])) =>
                /\ result' = "Ok"
                /\ Len(Events') = Len(Events) + 1
                /\ Last(Events')[1] = "Ask"
                /\ Last(Events')[3] = i
                /\ Last(Events')[4] = KittyPrices'[i]
         ]_vars

\* after a sale at a price above zero to another account, the next buy of a
\* kitty has failed with NotForSale
C8_Witness ==
    /\ result = "Kitty not for sale"
    /\ Len(Events) >= 1
    /\ Last(Events)[1] = "Sold"
    /\ Last(Events)[2] # Last(Events)[3]
    /\ Last(Events)[5] > 0
    /\ FreeBalance # [a \in AccountId |-> a - 1]

\* what a successful transfer(c, to, i) made of the store S gives in the store T
TransferEffect(S, T, c, to, i) ==
    /\ T.KittyOwners = [S.KittyOwners EXCEPT ![i] = Some(to)]
    /\ list_owned(T.OwnedKitties, to)
          = Append(Without(list_owned(S.OwnedKitties, to), i), i)
    /\ \A o \in AccountId \ {to} :
          list_owned(T.OwnedKitties, o) = Without(list_owned(S.OwnedKitties, o), i)
    /\ T.Kitties = S.Kitties
    /\ T.KittiesCount = S.KittiesCount
    /\ T.FreeBalance = S.FreeBalance

\* C9: a successful transfer(caller, to, id) makes `to` the owner of id, takes
\* id out of the caller's list and puts it at the tail of the list of `to`,
\* keeps the order of all other ids in every list, and leaves the asset
\* records, the counter and the balances as they were.
C9_TransferEffect ==
    \A c \in AccountId, to \in AccountId, i \in KittyIndex :
        transfer(Cur, c, to, i).result = "Ok"
            => TransferEffect(Cur, transfer(Cur, c, to, i), c, to, i)

\* a transfer has taken the middle id out of a list of three
C9_Witness ==
    /\ result = "Ok"
    /\ Len(Events) >= 1
    /\ Last(Events)[1] = "Transferred"
    /\ Last(Events)[2] # Last(Events)[3]
    /\ Len(Owned(Last(Events)[2])) = 2
    /\ Owned(Last(Events)[2])[1] < Last(Events)[4]
    /\ Last(Events)[4] < Owned(Last(Events)[2])[2]
    /\ Last(Owned(Last(Events)[3])) = Last(Events)[4]

\* what a successful create or breed by c gives in the store N: the new asset
\* under the old counter k, and nothing else touched
NewKittyEffect(S, N, c) ==
    LET k == S.KittiesCount
    IN  /\ ~IsSome(S.Kitties[k]) /\ IsSome(N.Kitties[k])
        /\ \A i \in KittyIndex \ {k} : N.Kitties[i] = S.Kitties[i]
        /\ N.KittyOwners = [S.KittyOwners EXCEPT ![k] = Some(c)]
        /\ list_owned(N.OwnedKitties, c) = Append(list_owned(S.OwnedKitties, c), k)
        /\ \A o \in AccountId \ {c} :
              list_owned(N.OwnedKitties, o) = list_owned(S.OwnedKitties, o)
        /\ ~IsSome(N.KittyPrices[k])
        /\ N.KittyPrices = S.KittyPrices
        /\ Last(N.Events) = <<"Created", c, k>>

\* C10: a successful create, and a successful breed, stores the new asset under
\* k = the counter before the call, makes the caller its owner, appends k at
\* the tail of the caller's list, gives k no price, and leaves every other
\* asset's record, owner, price and list position as it was; after a breed
\* both parents are still the caller's.
C10_NewKittyEffect ==
    /\ \A c \in AccountId, dna \in RandomValues :
          create(Cur, c, dna).result = "Ok" =>
              /\ NewKittyEffect(Cur, create(Cur, c, dna), c)
              /\ create(Cur, c, dna).Kitties[KittiesCount] = Some(dna)
    /\ \A c \in AccountId, i1 \in KittyIndex, i2 \in KittyIndex,
          selector \in RandomValues :
          breed(Cur, c, i1, i2, selector).result = "Ok" =>
              /\ NewKittyEffect(Cur, breed(Cur, c, i1, i2, selector), c)
              /\ breed(Cur, c, i1, i2, selector).KittyOwners[i1] = Some(c)
              /\ breed(Cur, c, i1, i2, selector).KittyOwners[i2] = Some(c)

\* a breed has put its child behind both parents while a parent is listed
C10_Witness ==
    /\ result = "Ok"
    /\ Len(Events) = 4
    /\ Last(Events)[1] = "Created"
    /\ Owned(Last(Events)[2]) = <<0, 1, 2>>
    /\ \E i \in {0, 1} : IsSome(KittyPrices[i])
    /\ ~IsSome(KittyPrices[2])

\* the stores one call can make of the store S, whatever the call and its arguments
AfterAnyCall(S) ==
    {create(S, c, d) : c \in AccountId, d \in RandomValues}
    \cup {breed(S, c, i1, i2, d) :
            c \in AccountId, i1 \in KittyIndex, i2 \in KittyIndex, d \in RandomValues}
    \cup {transfer(S, c, to, i) : c \in AccountId, to \in AccountId, i \in KittyIndex}
    \cup {ask(S, c, i, p) : c \in AccountId, i \in KittyIndex, p \in OptBalance}
    \cup {buy(S, c, i, p) : c \in AccountId, i \in KittyIndex, p \in Balance}

\* C11: an asset record that exists stays, with the same dna, whatever call
\* comes next: no create, breed, transfer, ask or buy deletes a record or
\* changes its dna.
C11_RecordsAreKept ==
    \A N \in AfterAnyCall(Cur) :
        \A i \in KittyIndex : IsSome(Kitties[i]) => N.Kitties[i] = Kitties[i]

\* records with different dnas, still there after a transfer or a sale that
\* came as the fourth call
C11_Witness ==
    /\ Len(Events) = 4
    /\ Last(Events)[1] \in {"Transferred", "Sold"}
    /\ \A i \in 0..1 : IsSome(Kitties[i])
    /\ Kitties[0] # Kitties[1]

\* C12: with the counter at the maximum id, create fails with CounterOverflow,
\* and so does a breed that passes its other checks, and both change nothing;
\* no call changes the counter or any asset record from then on, and the
\* maximum id is never given to an asset.
C12_OverflowIsPermanent ==
    /\ ~IsSome(Kitties[MaxKittyIndex])
    /\ ~IsSome(KittyOwners[MaxKittyIndex])
    /\ KittiesCount = MaxKittyIndex =>
        /\ \A c \in AccountId, d \in RandomValues :
              create(Cur, c, d) = Err(Cur, "Kitties count overflow")
        /\ \A c \in AccountId, i1 \in KittyIndex, i2 \in KittyIndex, d \in RandomValues :
              (/\ i1 # i2
               /\ KittyOwners[i1] = Some(c)
               /\ KittyOwners[i2] = Some(c))
                  => breed(Cur, c, i1, i2, d) = Err(Cur, "Kitties count overflow")
        /\ \A N \in AfterAnyCall(Cur) :
              /\ N.KittiesCount = MaxKittyIndex
              /\ N.Kitties = Kitties

\* a create or a breed has just been refused for the overflow, with every id
\* below the maximum in use
C12_Witness ==
    /\ KittiesCount = MaxKittyIndex
    /\ result = "Kitties count overflow"
    /\ \A i \in 0..(MaxKittyIndex - 1) : IsSome(Kitties[i])

\* ------------------------------------------------------------------ breeding
\* the store before any call, as a value
Genesis ==
    [Kitties |-> [i \in KittyIndex |-> None], KittiesCount |-> 0,
     OwnedKitties |-> [k \in AccountId \X OptKittyIndex |-> None],
     KittyOwners |-> [i \in KittyIndex |-> None],
     KittyPrices |-> [i \in KittyIndex |-> None],
     FreeBalance |-> [a \in AccountId |-> a - 1],
     Events |-> <<>>, result |-> "Ok"]

\* hashes random_value is taken to return here: byte i is seed * i mod 256
DnaSeeds == {0, 29, 85, 170, 255}
DnaInputs == {[i \in 1..DnaLen |-> (s * i) % 256] : s \in DnaSeeds}

\* the store after account 1 has created two kitties, of any two dnas
InitDna ==
    \E d1 \in DnaInputs, d2 \in DnaInputs :
        LET S == create(create(Genesis, 1, d1), 1, d2)
        IN  /\ Kitties = S.Kitties
            /\ KittiesCount = S.KittiesCount
            /\ OwnedKitties = S.OwnedKitties
            /\ KittyOwners = S.KittyOwners
            /\ KittyPrices = S.KittyPrices
            /\ FreeBalance = S.FreeBalance
            /\ Events = S.Events
            /\ result = S.result

BreedDna ==
    \E sender \in AccountId, id1 \in KittyIndex, id2 \in KittyIndex,
       selector \in DnaInputs :
        Commit(breed(Cur, sender, id1, id2, selector))

NextDna ==
    /\ Len(Events) < MaxEvents
    /\ BreedDna

SpecDna == InitDna /\ [][NextDna]_vars

\* bit b of the byte x
Bit(x, b) == (x \div (2 ^ b)) % 2

\* every bit of the byte child is the bit of p1 where the selector's bit is 1
\* and the bit of p2 where it is 0
IsMux(child, p1, p2, selector) ==
    /\ child \in 0..255
    /\ \A b \in 0..7 :
          Bit(child, b) = IF Bit(selector, b) = 1 THEN Bit(p1, b) ELSE Bit(p2, b)

\* C13: for every pair of parents and every selector, each bit of each of the
\* 16 bytes of the child breed stores is parent1's bit where the selector's bit
\* is 1 and parent2's bit where it is 0; so the child has the parents' bit
\* wherever the parents agree.
C13_ChildIsMux ==
    \A c \in AccountId, i1 \in KittyIndex, i2 \in KittyIndex, sel \in DnaInputs :
        LET B == breed(Cur, c, i1, i2, sel)
            child == Unwrap(B.Kitties[KittiesCount])
            p1 == Unwrap(Kitties[i1])
            p2 == Unwrap(Kitties[i2])
        IN  B.result = "Ok" =>
              /\ IsSome(B.Kitties[KittiesCount])
              /\ DOMAIN child = 1..DnaLen
              /\ \A i \in 1..DnaLen :
                    /\ IsMux(child[i], p1[i], p2[i], sel[i])
                    /\ \A b \in 0..7 :
                          Bit(p1[i], b) = Bit(p2[i], b) => Bit(child[i], b) = Bit(p1[i], b)

\* a child that is neither parent: some byte took bits of both
C13_Witness ==
    /\ result = "Ok"
    /\ KittiesCount = 3
    /\ Last(Events) = <<"Created", 1, 2>>
    /\ Kitties[2] # Kitties[0]
    /\ Kitties[2] # Kitties[1]
    /\ \E i \in 1..DnaLen :
          LET ch == Unwrap(Kitties[2])[i]
              a == Unwrap(Kitties[0])[i]
              b == Unwrap(Kitties[1])[i]
          IN  /\ \E k \in 0..7 : Bit(a, k) # Bit(b, k) /\ Bit(ch, k) = Bit(a, k)
              /\ \E k \in 0..7 : Bit(a, k) # Bit(b, k) /\ Bit(ch, k) = Bit(b, k)

\* ------------------------------------------------------------------ the index
\* the items stored under the keys of one owner
ItemsOf(M, o) == [v \in OptKittyIndex |-> M[<<o, v>>]]
\* the keys whose entry differs between the maps M and N
Changed(M, N) == {k \in DOMAIN M : M[k] # N[k]}
InSomeList(i) == \E o \in AccountId : IsSome(OwnedKitties[<<o, Some(i)>>])
EmptyIndex == [k \in AccountId \X OptKittyIndex |-> None]

\* the index after each step of the tests' fixture: 1, 2 and 3 appended for
\* one owner, then 2, 1 and 3 removed
Fix1 == append(EmptyIndex, 1, 1)
Fix12 == append(Fix1, 1, 2)
Fix123 == append(Fix12, 1, 3)
Fix13 == remove(Fix123, 1, 2)
Fix3 == remove(Fix13, 1, 1)
FixNone == remove(Fix3, 1, 3)
\* the sentinel and the items of 1, 2 and 3, as the tests read them
FixItems(M) == <<M[<<1, None>>], M[<<1, Some(1)>>], M[<<1, Some(2)>>], M[<<1, Some(3)>>]>>

\* C14: append puts the id at the tail and leaves the head when the list is
\* not empty; remove takes out the id alone and keeps the order of the others,
\* be it the head, in the middle, the tail or the only id; 1, 2, 3 appended and
\* 2, 1, 3 removed give [1, 3], [3], [] with the items the tests assert.
C14_InsertionOrder ==
    /\ \A o \in AccountId, v \in KittyIndex :
          ~InSomeList(v) =>
              LET N == append(OwnedKitties, o, v)
              IN  /\ list_owned(N, o) = Append(Owned(o), v)
                  /\ list_owned_rev(N, o) = Reverse(Append(Owned(o), v))
                  /\ Owned(o) # <<>> => read(N, o, None).next = Some(Owned(o)[1])
    /\ \A o \in AccountId, v \in KittyIndex :
          IsSome(OwnedKitties[<<o, Some(v)>>]) =>
              LET N == remove(OwnedKitties, o, v)
              IN  /\ list_owned(N, o) = Without(Owned(o), v)
                  /\ list_owned_rev(N, o) = Reverse(Without(Owned(o), v))
                  /\ ~IsSome(N[<<o, Some(v)>>])
    /\ FixItems(Fix1) = <<Some(LinkedItem(Some(1), Some(1))),
                          Some(LinkedItem(None, None)), None, None>>
    /\ FixItems(Fix12) = <<Some(LinkedItem(Some(2), Some(1))),
                           Some(LinkedItem(None, Some(2))),
                           Some(LinkedItem(Some(1), None)), None>>
    /\ FixItems(Fix123) = <<Some(LinkedItem(Some(3), Some(1))),
                            Some(LinkedItem(None, Some(2))),
                            Some(LinkedItem(Some(1), Some(3))),
                            Some(LinkedItem(Some(2), None))>>
    /\ FixItems(Fix13) = <<Some(LinkedItem(Some(3), Some(1))),
                           Some(LinkedItem(None, Some(3))), None,
                           Some(LinkedItem(Some(1), None))>>
    /\ FixItems(Fix3) = <<Some(LinkedItem(Some(3), Some(3))), None, None,
                          Some(LinkedItem(None, None))>>
    /\ FixItems(FixNone) = <<Some(LinkedItem(None, None)), None, None, None>>
    /\ list_owned(Fix123, 1) = <<1, 2, 3>>
    /\ list_owned(Fix13, 1) = <<1, 3>>
    /\ list_owned(Fix3, 1) = <<3>>
    /\ list_owned(FixNone, 1) = <<>>

\* a list of three, from which a head, a middle id and a tail can be removed,
\* next to an id in no list that can be appended, after a remove and an append
\* have put another id than 0 at the head of a list
C14_Witness ==
    /\ \E o \in AccountId : Len(Owned(o)) = 3
    /\ \E v \in KittyIndex : ~InSomeList(v)
    /\ \E o \in AccountId : Owned(o) # <<>> /\ Owned(o)[1] # 0

\* C15: a successful transfer leaves every price entry as it was, that of the
\* transferred id included, so a listing outlives the transfer: A lists id at
\* p, A transfers id to B, and a buy at p then succeeds, pays p to B and takes
\* id from B, who never called ask.
C15_TransferKeepsPrice ==
    \A c \in AccountId, to \in AccountId, i \in KittyIndex :
        LET T == transfer(Cur, c, to, i)
        IN  T.result = "Ok" =>
              /\ T.KittyPrices = KittyPrices
              /\ \A b \in AccountId, max \in Balance :
                    (/\ IsSome(KittyPrices[i])
                     /\ max >= Unwrap(KittyPrices[i])
                     /\ FreeBalance[b] >= Unwrap(KittyPrices[i]))
                        => LET B == buy(T, b, i, max)
                           IN  /\ B.result = "Ok"
                               /\ B.KittyOwners[i] = Some(b)
                               /\ Last(B.Events)
                                    = <<"Sold", to, b, i, Unwrap(KittyPrices[i])>>
                               /\ B.FreeBalance
                                    = PaidBalances(FreeBalance, b, to, Unwrap(KittyPrices[i]))

\* the execution of the claim: A creates, lists at a price above zero and
\* transfers to B; a buy then pays B, who has made no call
C15_Witness ==
    /\ Len(Events) = 4
    /\ Events[1][1] = "Created"
    /\ Events[2] = <<"Ask", Events[1][2], Events[1][3], Some(1)>>
    /\ Events[3][1] = "Transferred"
    /\ Events[3][2] = Events[1][2]
    /\ Events[3][3] # Events[1][2]
    /\ Events[3][4] = Events[1][3]
    /\ Events[4][1] = "Sold"
    /\ Events[4][2] = Events[3][3]
    /\ Events[4][4] = Events[1][3]
    /\ Events[4][5] = 1
    /\ result = "Ok"
    /\ FreeBalance[Events[3][3]] = Events[3][3] - 1 + 1

\* what buy(c, i, max) returns in the store S, by the claim's order of checks
BuyOutcome(S, c, i, max) ==
    IF ~IsSome(S.KittyOwners[i]) THEN "Kitty does not exist"
    ELSE IF ~IsSome(S.KittyPrices[i]) THEN "Kitty not for sale"
    ELSE IF max < Unwrap(S.KittyPrices[i]) THEN "Price is too low"
    ELSE IF S.FreeBalance[c] < Unwrap(S.KittyPrices[i]) THEN "InsufficientFunds"
    ELSE "Ok"

\* C16: buy reports the first failure that applies, in this order: no owner
\* pointer (AssetNotFound), no price entry (NotForSale), max_price below the
\* price (PriceTooLow; an equal max_price passes), the currency transfer of the
\* price failing (InsufficientFunds); a failed buy leaves the price, the owner
\* pointer, the index and the balances as they were.
C16_BuyChecksInOrder ==
    \A c \in AccountId, i \in KittyIndex, max \in Balance :
        LET B == buy(Cur, c, i, max)
        IN  /\ B.result = BuyOutcome(Cur, c, i, max)
            /\ B.result # "Ok" => B = Err(Cur, B.result)

\* a buy was refused for its offer while the caller could not have paid the
\* price either
C16_Witness ==
    /\ result = "Price is too low"
    /\ \E i \in KittyIndex, c \in AccountId :
          /\ IsSome(KittyPrices[i])
          /\ FreeBalance[c] < Unwrap(KittyPrices[i])
          /\ KittyOwners[i] # Some(c)

\* what breed(c, i1, i2) returns in the store S, by the claim's order of checks
BreedOutcome(S, c, i1, i2) ==
    IF ~IsSome(S.Kitties[i1]) THEN "Invalid kitty_id_1"
    ELSE IF ~IsSome(S.Kitties[i2]) THEN "Invalid kitty_id_2"
    ELSE IF i1 = i2 THEN "Needs different parent"
    ELSE IF S.KittyOwners[i1] # Some(c) THEN "Not owner of kitty1"
    ELSE IF S.KittyOwners[i2] # Some(c) THEN "Not owner of kitty2"
    ELSE IF S.KittiesCount = MaxKittyIndex THEN "Kitties count overflow"
    ELSE "Ok"

\* C17: breed reports the first failure that applies, in this order: no record
\* for id1, no record for id2, id1 = id2 (SameParent), caller not the owner of
\* id1, not the owner of id2, and the overflow of the counter last; so a breed
\* of x with x, x without a record, fails for the missing record; each failure
\* changes nothing.
C17_BreedChecksInOrder ==
    \A c \in AccountId, i1 \in KittyIndex, i2 \in KittyIndex, sel \in RandomValues :
        LET B == breed(Cur, c, i1, i2, sel)
        IN  /\ B.result = BreedOutcome(Cur, c, i1, i2)
            /\ B.result # "Ok" => B = Err(Cur, B.result)
            /\ (i1 = i2 /\ ~IsSome(Kitties[i1])) => B.result = "Invalid kitty_id_1"

\* a breed was refused for the owner of its second parent while the counter
\* is at the maximum and an id has no record
C17_Witness ==
    /\ result = "Not owner of kitty2"
    /\ KittiesCount = MaxKittyIndex
    /\ ~IsSome(Kitties[MaxKittyIndex])

\* C18: ask by the owner sets price[id] to p for every amount p, zero included
\* (a listing at zero is then bought with any max_price and no payment),
\* removes the entry of id when the price is none, and changes nothing else:
\* asset records, owner pointers, index, counter and balances stay.
C18_AskEffect ==
    \A c \in AccountId, i \in KittyIndex, price \in OptBalance :
        LET A == ask(Cur, c, i, price)
        IN  KittyOwners[i] = Some(c) =>
              /\ A.result = "Ok"
              /\ A.KittyPrices = [KittyPrices EXCEPT ![i] = price]
              /\ IsSome(A.KittyPrices[i]) <=> IsSome(price)
              /\ A.Kitties = Kitties
              /\ A.KittyOwners = KittyOwners
              /\ A.OwnedKitties = OwnedKitties
              /\ A.KittiesCount = KittiesCount
              /\ A.FreeBalance = FreeBalance
              /\ A.Events = Append(Events, <<"Ask", c, i, price>>)
              /\ price = Some(0) =>
                    \A b \in AccountId, max \in Balance :
                        /\ buy(A, b, i, max).result = "Ok"
                        /\ buy(A, b, i, max).FreeBalance = FreeBalance
                        /\ buy(A, b, i, max).KittyOwners[i] = Some(b)

\* a listing at 1 was replaced by a listing at zero, which an account without
\* funds then bought
C18_Witness ==
    /\ Len(Events) = 4
    /\ Events[2][1] = "Ask" /\ Events[2][4] = Some(1)
    /\ Events[3] = <<"Ask", Events[2][2], Events[2][3], Some(0)>>
    /\ Events[4] = <<"Sold", Events[2][2], Events[4][3], Events[2][3], 0>>
    /\ Events[4][3] # Events[2][2]
    /\ FreeBalance[Events[4][3]] = 0
    /\ ~IsSome(KittyPrices[Events[2][3]])

\* ------------------------------------------------------------ emptied lists
\* the index in which owner o never had a list
NeverExisted(M, o) == [k \in DOMAIN M |-> IF k[1] = o THEN None ELSE M[k]]

\* the index M holds an empty list for o that behaves like no list at all
BehavesAsAbsent(M, o) ==
    /\ \A v \in KittyIndex : M[<<o, Some(v)>>] = None
    /\ list_owned(M, o) = <<>> /\ list_owned_rev(M, o) = <<>>
    /\ list_owned(NeverExisted(M, o), o) = <<>>
    /\ list_owned_rev(NeverExisted(M, o), o) = <<>>
    /\ \A v \in KittyIndex :
           append(M, o, v) = append(NeverExisted(M, o), o, v)

\* C19: removing the last id of an owner leaves the sentinel stored as
\* {none, none}; the emptied list lists nothing in either direction, and an
\* append to it gives the same sentinel and node as an append for an owner
\* that has no sentinel at all
C19_EmptiedIsEmpty ==
    \A o \in AccountId :
        /\ \A i \in KittyIndex :
               Owned(o) = <<i>> =>
                   LET R == remove(OwnedKitties, o, i)
                   IN  /\ R[<<o, None>>] = Some(LinkedItem(None, None))
                       /\ BehavesAsAbsent(R, o)
        /\ OwnedKitties[<<o, None>>] = Some(LinkedItem(None, None)) =>
               BehavesAsAbsent(OwnedKitties, o)
        /\ Owned(o) = <<>> <=>
               OwnedKitties[<<o, None>>] \in {None, Some(LinkedItem(None, None))}

\* one account's list was emptied by a transfer and filled again by the
\* transfer back, and the other account's list is the emptied one
C19_Witness ==
    /\ Len(Events) = 3
    /\ Events[1][1] = "Created" /\ Events[2][1] = "Transferred"
    /\ Events[3][1] = "Transferred"
    /\ \E o, p \in AccountId :
           /\ o # p
           /\ Len(Owned(o)) = 1
           /\ OwnedKitties[<<o, None>>] =
                  Some(LinkedItem(Some(Owned(o)[1]), Some(Owned(o)[1])))
           /\ OwnedKitties[<<p, None>>] = Some(LinkedItem(None, None))

\* ----------------------------------------------------------- bounded writes
\* C20: append writes no index entry but the sentinel, the old tail and the
\* new node, remove writes none but the node before (or the sentinel), the
\* node after (or the sentinel) and the removed node: at most three entries,
\* all of this owner, whatever the length of the list
C20_BoundedWrites ==
    \A o \in AccountId, v \in KittyIndex :
        /\ ~IsSome(OwnedKitties[<<o, Some(v)>>]) =>
               LET N == append(OwnedKitties, o, v)
                   old_tail == read(OwnedKitties, o, None).prev
                   W == Changed(OwnedKitties, N)
               IN  /\ W \subseteq {<<o, None>>, <<o, old_tail>>, <<o, Some(v)>>}
                   /\ {<<o, None>>, <<o, Some(v)>>} \subseteq W
                   /\ Cardinality(W) <= 3
        /\ IsSome(OwnedKitties[<<o, Some(v)>>]) =>
               LET N == remove(OwnedKitties, o, v)
                   item == read(OwnedKitties, o, Some(v))
                   W == Changed(OwnedKitties, N)
               IN  /\ W = {<<o, item.prev>>, <<o, item.next>>, <<o, Some(v)>>}
                   /\ Cardinality(W) <= 3

\* a list of three ids: the third append left the first node as it was, and
\* removing the middle id writes three nodes and not the sentinel
C20_Witness ==
    \E o \in AccountId :
        /\ Len(Owned(o)) = 3
        /\ LET W == Changed(OwnedKitties, remove(OwnedKitties, o, Owned(o)[2]))
           IN  Cardinality(W) = 3 /\ <<o, None>> \notin W
        /\ LET v == CHOOSE x \in KittyIndex : ~InSomeList(x)
               W == Changed(OwnedKitties, append(OwnedKitties, o, v))
           IN  Cardinality(W) = 3 /\ <<o, Some(Owned(o)[1])>> \notin W

\* ---------------------------------------------------------------- event log
\* the call that gave the store A logged the event e if it succeeded and
\* nothing if it failed
Logged(A, e) ==
    IF A.result = "Ok" THEN A.Events = Append(Events, e) ELSE A.Events = Events

\* C21: the event log only grows at its end: a successful call adds exactly
\* one event and a failed call none. create and breed add Created(caller, new
\* id), transfer adds Transferred(caller, to, id), ask adds Ask(caller, id,
\* price) and buy adds Sold(previous owner, caller, id, listed price).
C21_EventLog ==
    /\ [](\A c \in AccountId :
            /\ \A r \in RandomValues :
                   /\ Logged(create(Cur, c, r), <<"Created", c, KittiesCount>>)
                   /\ \A i \in KittyIndex, j \in KittyIndex :
                          Logged(breed(Cur, c, i, j, r),
                                 <<"Created", c, KittiesCount>>)
            /\ \A i \in KittyIndex :
                   /\ \A to \in AccountId :
                          Logged(transfer(Cur, c, to, i),
                                 <<"Transferred", c, to, i>>)
                   /\ \A price \in OptBalance :
                          Logged(ask(Cur, c, i, price), <<"Ask", c, i, price>>)
                   /\ \A max \in Balance :
                          LET B == buy(Cur, c, i, max)
                          IN  IF B.result = "Ok"
                              THEN B.Events =
                                     Append(Events,
                                            <<"Sold", Unwrap(KittyOwners[i]), c, i,
                                              Unwrap(KittyPrices[i])>>)
                              ELSE B.Events = Events)
    /\ [][/\ result' = "Ok" =>
                /\ Len(Events') = Len(Events) + 1
                /\ SubSeq(Events', 1, Len(Events)) = Events
          /\ result' # "Ok" => Events' = Events
         ]_vars

\* a log that holds an event of each of the four kinds
C21_Witness ==
    /\ Len(Events) = 4
    /\ {Events[n][1] : n \in 1..4} = {"Created", "Transferred", "Ask", "Sold"}

\* ------------------------------------------------- who changes owner and price
\* C22: the owner pointer of an existing asset changes only in a successful
\* transfer by its current owner or in a successful buy of it while it has a
\* price entry; create, breed and ask change the owner of no existing asset.
\* The price entry of an id changes only in an ask by the id's current owner
\* or in a successful buy of that id.
C22_OwnerAndPriceWriters ==
    \A c \in AccountId, i \in Existing :
        /\ \A r \in RandomValues :
               /\ create(Cur, c, r).KittyOwners[i] = KittyOwners[i]
               /\ create(Cur, c, r).KittyPrices = KittyPrices
               /\ \A j \in KittyIndex, k \in KittyIndex :
                      /\ breed(Cur, c, j, k, r).KittyOwners[i] = KittyOwners[i]
                      /\ breed(Cur, c, j, k, r).KittyPrices = KittyPrices
        /\ \A j \in KittyIndex, price \in OptBalance :
               LET A == ask(Cur, c, j, price)
               IN  /\ A.KittyOwners = KittyOwners
                   /\ A.KittyPrices[i] # KittyPrices[i] =>
                          /\ j = i /\ A.result = "Ok"
                          /\ KittyOwners[i] = Some(c)
                          /\ A.KittyPrices[i] = price
        /\ \A j \in KittyIndex, to \in AccountId :
               LET T == transfer(Cur, c, to, j)
               IN  /\ T.KittyPrices = KittyPrices
                   /\ T.KittyOwners[i] # KittyOwners[i] =>
                          /\ j = i /\ T.result = "Ok"
                          /\ KittyOwners[i] = Some(c)
                          /\ T.KittyOwners[i] = Some(to)
        /\ \A j \in KittyIndex, max \in Balance :
               LET B == buy(Cur, c, j, max)
               IN  /\ B.KittyOwners[i] # KittyOwners[i] =>
                          /\ j = i /\ B.result = "Ok"
                          /\ IsSome(KittyPrices[i])
                          /\ B.KittyOwners[i] = Some(c)
                   /\ B.KittyPrices[i] # KittyPrices[i] =>
                          /\ j = i /\ B.result = "Ok"
                          /\ B.KittyPrices[i] = None

\* the owner of one id was changed by a sale and changed back by a transfer,
\* and its price entry was set by an ask of the owner and cleared by the sale
C22_Witness ==
    /\ Len(Events) = 4
    /\ Events[1][1] = "Created"
    /\ Events[2][1] = "Ask" /\ Events[2][2] = Events[1][2]
    /\ Events[2][3] = Events[1][3] /\ IsSome(Events[2][4])
    /\ Events[3][1] = "Sold" /\ Events[3][2] = Events[1][2]
    /\ Events[3][3] # Events[1][2] /\ Events[3][4] = Events[1][3]
    /\ Events[4] = <<"Transferred", Events[3][3], Events[1][2], Events[1][3]>>
    /\ KittyOwners[Events[1][3]] = Some(Events[1][2])
    /\ ~IsSome(KittyPrices[Events[1][3]])

\* ------------------------------------------------------------------ balances
\* the sum of the balances B of the accounts 1 .. n
RECURSIVE SumTo(_, _)
SumTo(B, n) == IF n = 0 THEN 0 ELSE B[n] + SumTo(B, n - 1)
Total(B) == SumTo(B, NumAccounts)

\* C23: the sum of all balances is the same in every reachable state. create,
\* breed, transfer and ask change no balance, a failed buy changes none, and a
\* successful buy takes the listed price from the buyer and gives it to the
\* seller and changes no other balance; when the buyer is the owner, every
\* balance and the owner pointer stay and the price entry is cleared.
C23_BalancesConserved ==
    /\ Total(FreeBalance) = Total([a \in AccountId |-> a - 1])
    /\ \A c \in AccountId :
          /\ \A r \in RandomValues :
                 /\ create(Cur, c, r).FreeBalance = FreeBalance
                 /\ \A j \in KittyIndex, k \in KittyIndex :
                        breed(Cur, c, j, k, r).FreeBalance = FreeBalance
          /\ \A i \in KittyIndex :
                 /\ \A to \in AccountId :
                        transfer(Cur, c, to, i).FreeBalance = FreeBalance
                 /\ \A price \in OptBalance :
                        ask(Cur, c, i, price).FreeBalance = FreeBalance
                 /\ \A max \in Balance :
                        LET B == buy(Cur, c, i, max)
                            owner == Unwrap(KittyOwners[i])
                            p == Unwrap(KittyPrices[i])
                        IN  IF B.result # "Ok" THEN B.FreeBalance = FreeBalance
                            ELSE /\ Total(B.FreeBalance) = Total(FreeBalance)
                                 /\ \A a \in AccountId \ {c, owner} :
                                        B.FreeBalance[a] = FreeBalance[a]
                                 /\ owner # c =>
                                        /\ B.FreeBalance[c] = FreeBalance[c] - p
                                        /\ B.FreeBalance[owner] = FreeBalance[owner] + p
                                 /\ owner = c =>
                                        /\ B.FreeBalance = FreeBalance
                                        /\ B.KittyOwners = KittyOwners
                                        /\ B.KittyPrices =
                                             [KittyPrices EXCEPT ![i] = None]

\* a sale at a price above zero has moved the whole balance of the buyer to
\* the seller, who had none
C23_Witness ==
    /\ Len(Events) >= 3
    /\ Last(Events)[1] = "Sold"
    /\ Last(Events)[2] # Last(Events)[3]
    /\ Last(Events)[5] > 0
    /\ FreeBalance[Last(Events)[2]] = Last(Events)[5]
    /\ FreeBalance[Last(Events)[3]] = 0
    /\ FreeBalance # [a \in AccountId |-> a - 1]

====
